---- MODULE Spec2Model ----
(***************************************************************************)
(* Model of the pomodoro timer (src/core/pomodoro.py), of the widgets that *)
(* drive it (src/ui/float_pomodoro_widget.py, src/ui/pomodoro_widget.py)   *)
(* and of the pomodoros table they write to (src/core/database.py).        *)
(*                                                                         *)
(* Three specifications share the variables:                               *)
(*   Spec          the PomodoroTimer alone, its methods called in any      *)
(*                 order;                                                  *)
(*   SpecUI        the FloatPomodoroWidget (the one MainWindow creates)    *)
(*                 driving its PomodoroTimer and the database;             *)
(*   SpecEmbedded  the PomodoroWidget doing the same.                      *)
(* Time is counted in seconds; one QTimer timeout is one second.           *)
(***************************************************************************)
EXTENDS Integers, Sequences, FiniteSets

\* ---------------------------------------------------------------- bounds
\* Largest duration (seconds) handed to a start call in Spec.
MaxDur == 2
\* Latest clock value; every tick takes one second, so it bounds a run.
MaxNow == 4

\* Largest number of minutes a duration setting takes in SpecUI.
MaxMinutes == 2
\* Number of tasks in the tasks table.
MaxTasks == 1

\* Seconds in a minute: the code's 60, scaled down so that a countdown is a
\* few ticks long.  Every duration of the model is scaled by it alike.
SecondsPerMinute == 1

\* Seconds of a calendar day (stands for 86400) and rows the store is given.
SecondsPerDay == 2
MaxRows == 2

\* ------------------------------------------------------------- constants
\* PomodoroTimer class attributes (defaults, in seconds).
WORK_DURATION == 25 * SecondsPerMinute
SHORT_BREAK_DURATION == 5 * SecondsPerMinute
LONG_BREAK_DURATION == 15 * SecondsPerMinute

\* PomodoroState values.
IDLE == "idle"
WORKING == "working"
SHORT_BREAK == "short_break"
LONG_BREAK == "long_break"
PAUSED == "paused"

PomodoroState == {IDLE, WORKING, SHORT_BREAK, LONG_BREAK, PAUSED}
Running == {WORKING, SHORT_BREAK, LONG_BREAK}

\* Python's None for _start_time (times are naturals).
None == -1

VARIABLES
    pomodoro_timer, \* the PomodoroTimer instance (record of its attributes)
    now,            \* datetime.now(), in seconds
    op,             \* the timer method the last step called, with its argument
    ret,            \* what that call returned
    notes,          \* the callbacks that call fired, in order
    run,            \* the interval in progress: which start call began it
    ui,             \* the widget that owns the timer (SpecUI)
    db              \* the database tables (SpecUI)

vars == <<pomodoro_timer, now, op, ret, notes, run, ui, db>>

\* ------------------------------------------------------- PomodoroTimer
\* PomodoroTimer.__init__
NewTimer ==
    [state |-> IDLE,
     remaining_seconds |-> WORK_DURATION,
     elapsed_seconds |-> 0,
     start_time |-> None,
     work_sessions |-> 0,
     WORK_DURATION |-> WORK_DURATION,
     SHORT_BREAK_DURATION |-> SHORT_BREAK_DURATION,
     LONG_BREAK_DURATION |-> LONG_BREAK_DURATION]

on_state_change(s) == [cb |-> "on_state_change", arg |-> s]
on_tick(r) == [cb |-> "on_tick", arg |-> r]

\* Each method maps the timer to [t: the timer afterwards, notes: the
\* callbacks fired, ret: the return value].
\* start_work() that carries on with the countdown when already WORKING.
start_work_resumes(t, clock) ==
    LET t1 == IF t.state = WORKING
              THEN t
              ELSE [t EXCEPT !.state = WORKING,
                             !.remaining_seconds = t.WORK_DURATION,
                             !.elapsed_seconds = 0,
                             !.start_time = clock]
    IN [t |-> t1, notes |-> <<on_state_change(t1.state)>>, ret |-> FALSE]

start_work(t, clock) ==
    LET t1 == [t EXCEPT !.state = WORKING,
                        !.remaining_seconds = t.WORK_DURATION,
                        !.elapsed_seconds = 0,
                        !.start_time = clock]
    IN [t |-> t1, notes |-> <<on_state_change(t1.state)>>, ret |-> FALSE]

start_short_break(t) ==
    LET t1 == [t EXCEPT !.state = SHORT_BREAK,
                        !.remaining_seconds = t.SHORT_BREAK_DURATION,
                        !.elapsed_seconds = 0]
    IN [t |-> t1, notes |-> <<on_state_change(t1.state)>>, ret |-> FALSE]

start_long_break(t) ==
    LET t1 == [t EXCEPT !.state = LONG_BREAK,
                        !.remaining_seconds = t.LONG_BREAK_DURATION,
                        !.elapsed_seconds = 0]
    IN [t |-> t1, notes |-> <<on_state_change(t1.state)>>, ret |-> FALSE]

\* pause() that calls on_state_change before it assigns the state.
pause_notifies_first(t) ==
    IF t.state \in {WORKING, SHORT_BREAK, LONG_BREAK}
    THEN LET t1 == [t EXCEPT !.state = PAUSED]
         IN [t |-> t1, notes |-> <<on_state_change(t.state)>>, ret |-> FALSE]
    ELSE [t |-> t, notes |-> <<>>, ret |-> FALSE]

\* pause() without its state guard.
pause_unguarded(t) ==
    LET t1 == [t EXCEPT !.state = PAUSED]
    IN [t |-> t1, notes |-> <<on_state_change(t1.state)>>, ret |-> FALSE]

pause(t) ==
    IF t.state \in {WORKING, SHORT_BREAK, LONG_BREAK}
    THEN LET t1 == [t EXCEPT !.state = PAUSED]
         IN [t |-> t1, notes |-> <<on_state_change(t1.state)>>, ret |-> FALSE]
    ELSE [t |-> t, notes |-> <<>>, ret |-> FALSE]

\* resume() comparing elapsed <= remaining instead of <.
resume_le(t) ==
    IF t.state = PAUSED
    THEN LET s == IF t.elapsed_seconds <= t.remaining_seconds
                  THEN IF t.remaining_seconds <= t.WORK_DURATION THEN WORKING
                       ELSE IF t.remaining_seconds <= t.SHORT_BREAK_DURATION
                            THEN SHORT_BREAK
                            ELSE LONG_BREAK
                  ELSE IDLE
             t1 == [t EXCEPT !.state = s]
         IN [t |-> t1, notes |-> <<on_state_change(t1.state)>>, ret |-> FALSE]
    ELSE [t |-> t, notes |-> <<>>, ret |-> FALSE]

resume(t) ==
    IF t.state = PAUSED
    THEN LET s == IF t.elapsed_seconds < t.remaining_seconds
                  THEN IF t.remaining_seconds <= t.WORK_DURATION THEN WORKING
                       ELSE IF t.remaining_seconds <= t.SHORT_BREAK_DURATION
                            THEN SHORT_BREAK
                            ELSE LONG_BREAK
                  ELSE IDLE
             t1 == [t EXCEPT !.state = s]
         IN [t |-> t1, notes |-> <<on_state_change(t1.state)>>, ret |-> FALSE]
    ELSE [t |-> t, notes |-> <<>>, ret |-> FALSE]

\* reset() that also clears the session counter.
reset_clears_sessions(t) ==
    LET t1 == [t EXCEPT !.state = IDLE,
                        !.remaining_seconds = t.WORK_DURATION,
                        !.elapsed_seconds = 0,
                        !.start_time = None,
                        !.work_sessions = 0]
    IN [t |-> t1, notes |-> <<on_state_change(t1.state)>>, ret |-> FALSE]

\* reset() that zeroes the countdown instead of reloading WORK_DURATION.
reset_to_zero(t) ==
    LET t1 == [t EXCEPT !.state = IDLE,
                        !.remaining_seconds = 0,
                        !.elapsed_seconds = 0,
                        !.start_time = None]
    IN [t |-> t1, notes |-> <<on_state_change(t1.state)>>, ret |-> FALSE]

reset(t) ==
    LET t1 == [t EXCEPT !.state = IDLE,
                        !.remaining_seconds = t.WORK_DURATION,
                        !.elapsed_seconds = 0,
                        !.start_time = None]
    IN [t |-> t1, notes |-> <<on_state_change(t1.state)>>, ret |-> FALSE]

\* tick() without its state guard.
tick_unguarded(t) ==
    IF t.remaining_seconds > 0
    THEN LET t1 == [t EXCEPT !.remaining_seconds = @ - 1,
                             !.elapsed_seconds = @ + 1]
         IN [t |-> t1, notes |-> <<on_tick(t1.remaining_seconds)>>,
             ret |-> FALSE]
    ELSE [t |-> IF t.state = WORKING
                THEN [t EXCEPT !.work_sessions = @ + 1]
                ELSE t,
          notes |-> <<>>, ret |-> TRUE]

\* tick() that returns to IDLE when it reports completion.
tick_auto_idle(t) ==
    IF t.state \notin {WORKING, SHORT_BREAK, LONG_BREAK}
    THEN [t |-> t, notes |-> <<>>, ret |-> FALSE]
    ELSE IF t.remaining_seconds > 0
         THEN LET t1 == [t EXCEPT !.remaining_seconds = @ - 1,
                                  !.elapsed_seconds = @ + 1]
              IN [t |-> t1, notes |-> <<on_tick(t1.remaining_seconds)>>,
                  ret |-> FALSE]
         ELSE [t |-> IF t.state = WORKING
                     THEN [t EXCEPT !.work_sessions = @ + 1, !.state = IDLE]
                     ELSE [t EXCEPT !.state = IDLE],
               notes |-> <<>>, ret |-> TRUE]

\* tick() that passes on_tick the count before the decrement.
tick_notifies_old(t) ==
    IF t.state \notin {WORKING, SHORT_BREAK, LONG_BREAK}
    THEN [t |-> t, notes |-> <<>>, ret |-> FALSE]
    ELSE IF t.remaining_seconds > 0
         THEN LET t1 == [t EXCEPT !.remaining_seconds = @ - 1,
                                  !.elapsed_seconds = @ + 1]
              IN [t |-> t1, notes |-> <<on_tick(t.remaining_seconds)>>,
                  ret |-> FALSE]
         ELSE [t |-> IF t.state = WORKING
                     THEN [t EXCEPT !.work_sessions = @ + 1]
                     ELSE t,
               notes |-> <<>>, ret |-> TRUE]

\* tick() that decrements before it tests for zero.
tick_past_zero(t) ==
    IF t.state \notin {WORKING, SHORT_BREAK, LONG_BREAK}
    THEN [t |-> t, notes |-> <<>>, ret |-> FALSE]
    ELSE LET t1 == [t EXCEPT !.remaining_seconds = @ - 1,
                             !.elapsed_seconds = @ + 1]
         IN IF t1.remaining_seconds > 0
            THEN [t |-> t1, notes |-> <<on_tick(t1.remaining_seconds)>>,
                  ret |-> FALSE]
            ELSE [t |-> IF t.state = WORKING
                        THEN [t1 EXCEPT !.work_sessions = @ + 1]
                        ELSE t1,
                  notes |-> <<>>, ret |-> TRUE]

\* tick() counting every completion, whatever the state.
tick_counts_breaks(t) ==
    IF t.state \notin {WORKING, SHORT_BREAK, LONG_BREAK}
    THEN [t |-> t, notes |-> <<>>, ret |-> FALSE]
    ELSE IF t.remaining_seconds > 0
         THEN LET t1 == [t EXCEPT !.remaining_seconds = @ - 1,
                                  !.elapsed_seconds = @ + 1]
              IN [t |-> t1, notes |-> <<on_tick(t1.remaining_seconds)>>,
                  ret |-> FALSE]
         ELSE [t |-> [t EXCEPT !.work_sessions = @ + 1],
               notes |-> <<>>, ret |-> TRUE]

tick(t) ==
    IF t.state \notin {WORKING, SHORT_BREAK, LONG_BREAK}
    THEN [t |-> t, notes |-> <<>>, ret |-> FALSE]
    ELSE IF t.remaining_seconds > 0
         THEN LET t1 == [t EXCEPT !.remaining_seconds = @ - 1,
                                  !.elapsed_seconds = @ + 1]
              IN [t |-> t1, notes |-> <<on_tick(t1.remaining_seconds)>>,
                  ret |-> FALSE]
         ELSE [t |-> IF t.state = WORKING
                     THEN [t EXCEPT !.work_sessions = @ + 1]
                     ELSE t,
               notes |-> <<>>, ret |-> TRUE]

get_duration(t) ==
    IF t.state = WORKING THEN t.WORK_DURATION
    ELSE IF t.state = SHORT_BREAK THEN t.SHORT_BREAK_DURATION
    ELSE IF t.state = LONG_BREAK THEN t.LONG_BREAK_DURATION
    ELSE t.WORK_DURATION

get_actual_duration(t) == t.elapsed_seconds
get_start_time(t) == t.start_time
get_end_time(clock) == clock

\* ------------------------------------------------------------- Database
\* str() and int() on the naturals the settings hold: a decimal string is
\* the sequence of its digits.
RECURSIVE str(_)
str(n) == IF n < 10 THEN <<n>> ELSE Append(str(n \div 10), n % 10)

RECURSIVE int(_)
int(s) == IF Len(s) = 1 THEN s[1]
          ELSE 10 * int(SubSeq(s, 1, Len(s) - 1)) + s[Len(s)]

SettingKeys == {"work_duration", "short_break_duration", "long_break_duration"}

\* A format that puts the time of day before the date.
isoformat_time_first(t) == <<t % SecondsPerDay, t \div SecondsPerDay>>

\* datetime.isoformat() of the time t seconds after the first midnight: the
\* date part, then the time of day.
isoformat(t) == <<t \div SecondsPerDay, t % SecondsPerDay>>

\* SQL DATE() of an ISO string: its date part.
DATE(s) == s[1]

\* The opposite order, of ORDER BY start_time ASC.
iso_less_ascending(a, b) == b[1] < a[1] \/ (b[1] = a[1] /\ b[2] < a[2])

\* The order ORDER BY puts on two ISO strings: character by character.
iso_less(a, b) == a[1] < b[1] \/ (a[1] = b[1] /\ a[2] < b[2])

\* Database._init_db on a fresh file: the tables are empty.  pomodoros rows
\* are [id, task_id, duration, start_time, end_time]; seq and task_seq are
\* the AUTOINCREMENT counters of pomodoros and tasks; settings maps a key
\* (the PRIMARY KEY) to the value of its row, NoRow where it has none.
NoRow == <<None>>

NewDatabase ==
    [tasks |-> {},
     task_seq |-> 0,
     pomodoros |-> {},
     seq |-> 0,
     settings |-> [k \in SettingKeys |-> NoRow]]

get_setting(d, key, default) ==
    IF d.settings[key] # NoRow THEN d.settings[key] ELSE default

\* set_setting with INSERT OR IGNORE in place of REPLACE.
set_setting_ignore(d, key, value) ==
    IF d.settings[key] # NoRow THEN d ELSE [d EXCEPT !.settings[key] = value]

set_setting(d, key, value) ==
    [d EXCEPT !.settings[key] = value]

\* Database.create_pomodoro.  foreign_keys is ON and task_id REFERENCES
\* tasks(id): the INSERT raises IntegrityError when no such task exists.
\* Gives [d: the database afterwards, raised: the exception or ""].
\* interval is not a column: it remembers which interval the row is of.
\* A NULL task_id passes the foreign key.  lastrowid is in id.
\* create_pomodoro on a table without AUTOINCREMENT: the largest rowid + 1.
create_pomodoro_rowid(d, task_id, duration, start_time, end_time, interval) ==
    IF task_id # None /\ task_id \notin d.tasks
    THEN [d |-> d, raised |-> "IntegrityError", id |-> None]
    ELSE LET ids == {r.id : r \in d.pomodoros}
             rowid == IF ids = {} THEN 1
                      ELSE (CHOOSE i \in ids : \A j \in ids : j <= i) + 1
         IN [d |-> [d EXCEPT !.seq = rowid,
                             !.pomodoros = @ \cup
                                 {[id |-> rowid,
                                   task_id |-> task_id,
                                   duration |-> duration,
                                   start_time |-> start_time,
                                   end_time |-> end_time,
                                   interval |-> interval]}],
             raised |-> "", id |-> rowid]

\* create_pomodoro whose INSERT is committed before the foreign key is
\* checked.
create_pomodoro_late_check(d, task_id, duration, start_time, end_time, interval) ==
    [d |-> [d EXCEPT !.seq = @ + 1,
                     !.pomodoros = @ \cup
                         {[id |-> d.seq + 1,
                           task_id |-> task_id,
                           duration |-> duration,
                           start_time |-> start_time,
                           end_time |-> end_time,
                           interval |-> interval]}],
     raised |-> IF task_id # None /\ task_id \notin d.tasks
                THEN "IntegrityError" ELSE "",
     id |-> d.seq + 1]

create_pomodoro(d, task_id, duration, start_time, end_time, interval) ==
    IF task_id # None /\ task_id \notin d.tasks
    THEN [d |-> d, raised |-> "IntegrityError", id |-> None]
    ELSE [d |-> [d EXCEPT !.seq = @ + 1,
                          !.pomodoros = @ \cup
                              {[id |-> d.seq + 1,
                                task_id |-> task_id,
                                duration |-> duration,
                                start_time |-> start_time,
                                end_time |-> end_time,
                                interval |-> interval]}],
          raised |-> "", id |-> d.seq + 1]

\* Database.create_task.  Gives [d: the database afterwards, id: lastrowid].
create_task(d) ==
    [d |-> [d EXCEPT !.task_seq = @ + 1, !.tasks = @ \cup {d.task_seq + 1}],
     id |-> d.task_seq + 1]

\* Database.delete_task: ON DELETE CASCADE takes the task's pomodoros along.
delete_task(d, task_id) ==
    [d EXCEPT !.tasks = @ \ {task_id},
              !.pomodoros = {r \in @ : r.task_id # task_id}]

\* delete_pomodoro with id <= ? in place of id = ?.
delete_pomodoro_upto(d, pomodoro_id) ==
    [d EXCEPT !.pomodoros = {r \in @ : r.id > pomodoro_id}]

delete_pomodoro(d, pomodoro_id) ==
    [d EXCEPT !.pomodoros = {r \in @ : r.id # pomodoro_id}]

\* dict(row): the columns of a row.
dict(r) ==
    [id |-> r.id, task_id |-> r.task_id, duration |-> r.duration,
     start_time |-> r.start_time, end_time |-> r.end_time]

\* ORDER BY start_time DESC, then fetchall() as dicts.  SQL fixes no order
\* among equal start times; SQLite yields them in rowid order.
RECURSIVE order_by_start_time_desc(_)
order_by_start_time_desc(rows) ==
    IF rows = {} THEN <<>>
    ELSE LET first == CHOOSE r \in rows :
                         \A o \in rows \ {r} :
                            \/ iso_less(o.start_time, r.start_time)
                            \/ (o.start_time = r.start_time /\ r.id < o.id)
         IN <<dict(first)>> \o order_by_start_time_desc(rows \ {first})

\* get_pomodoros_by_task without its WHERE clause.
get_pomodoros_by_task_unfiltered(d, task_id) ==
    order_by_start_time_desc(d.pomodoros)

\* WHERE task_id = ?: no row matches a NULL parameter.
get_pomodoros_by_task(d, task_id) ==
    order_by_start_time_desc(
        {r \in d.pomodoros : task_id # None /\ r.task_id = task_id})

\* The filter with <= in place of =.
today_or_earlier(d, clock) ==
    {r \in d.pomodoros : DATE(r.start_time) <= DATE(isoformat(clock))}

\* WHERE DATE(start_time) = DATE('now', 'localtime'), at time clock.
today(d, clock) ==
    {r \in d.pomodoros : DATE(r.start_time) = DATE(isoformat(clock))}

get_today_pomodoros(d, clock) == order_by_start_time_desc(today(d, clock))

get_all_pomodoros(d) == order_by_start_time_desc(d.pomodoros)

\* SQL COUNT(*) and SUM(duration); SUM over no row is NULL (None).
COUNT(rows) == Cardinality(rows)

RECURSIVE SUM(_)
SUM(rows) ==
    IF rows = {} THEN None
    ELSE LET r == CHOOSE x \in rows : TRUE
             rest == rows \ {r}
         IN IF rest = {} THEN r.duration ELSE r.duration + SUM(rest)

\* Python's "total or 0".
or_0(total) == IF total = None \/ total = 0 THEN 0 ELSE total

\* get_pomodoro_stats whose second query lost its WHERE clause.
get_pomodoro_stats_unfiltered(d, clock) ==
    [today_count |-> COUNT(today(d, clock)),
     today_duration |-> or_0(SUM(d.pomodoros)),
     all_time_duration |-> or_0(SUM(d.pomodoros))]

\* get_pomodoro_stats whose first query lost its WHERE clause.
get_pomodoro_stats_counts_all(d, clock) ==
    [today_count |-> COUNT(d.pomodoros),
     today_duration |-> or_0(SUM(today(d, clock))),
     all_time_duration |-> or_0(SUM(d.pomodoros))]

get_pomodoro_stats(d, clock) ==
    [today_count |-> COUNT(today(d, clock)),
     today_duration |-> or_0(SUM(today(d, clock))),
     all_time_duration |-> or_0(SUM(d.pomodoros))]

\* -------------------------------------------------------------- widgets
\* The attributes of FloatPomodoroWidget ("float") and PomodoroWidget
\* ("embedded") that decide what the handlers do.  timer_active is the
\* QTimer; *_checked the three mode buttons; *_enabled the buttons a click
\* needs; *_minutes the configured durations (_work_duration.. in the float
\* widget, the spin boxes in the embedded one); todo_task_id is
\* TodoWidget.current_task_id; raised is an exception that left a handler.
NewWidget(kind, work, short, long) ==
    [widget |-> kind,
     timer_active |-> FALSE,
     work_checked |-> TRUE,
     short_checked |-> FALSE,
     long_checked |-> FALSE,
     mode_enabled |-> TRUE,
     start_enabled |-> TRUE,
     pause_enabled |-> FALSE,
     selector_enabled |-> TRUE,
     work_minutes |-> work,
     short_minutes |-> short,
     long_minutes |-> long,
     current_task_id |-> None,
     todo_task_id |-> None,
     raised |-> ""]

\* The timer without a widget (Spec).
NoWidget == NewWidget("none", 25, 5, 15)

\* FloatPomodoroWidget.__init__: the durations come from the settings.
NewFloatWidget(d) ==
    NewWidget("float",
              int(get_setting(d, "work_duration", str(25))),
              int(get_setting(d, "short_break_duration", str(5))),
              int(get_setting(d, "long_break_duration", str(15))))

\* DurationSelector._save_config: all three spin boxes are written.
save_config(d, work, short, long) ==
    set_setting(set_setting(set_setting(d,
        "work_duration", str(work)),
        "short_break_duration", str(short)),
        "long_break_duration", str(long))

\* DurationSelector._init_ui and _load_config.  setValue on a spin box fires
\* valueChanged when the value changes, and valueChanged runs _save_config
\* with the other spin boxes as they are at that moment.
\* Gives [d: the database afterwards, work, short, long: the spin boxes].
load_config(d) ==
    LET w == int(get_setting(d, "work_duration", str(25)))
        d1 == IF w # 25 THEN save_config(d, w, 5, 15) ELSE d
        s == int(get_setting(d1, "short_break_duration", str(5)))
        d2 == IF s # 5 THEN save_config(d1, w, s, 15) ELSE d1
        l == int(get_setting(d2, "long_break_duration", str(15)))
        d3 == IF l # 15 THEN save_config(d2, w, s, l) ELSE d2
    IN [d |-> d3, work |-> w, short |-> s, long |-> l]

\* FloatPomodoroWidget._update_control_buttons
update_control_buttons(u, state) ==
    [u EXCEPT !.mode_enabled = (state = IDLE),
              !.start_enabled = (state \in {IDLE, PAUSED}),
              !.pause_enabled = (state \in Running \cup {PAUSED})]

\* _on_state_change_callback, for the callbacks a timer method fired: the
\* float widget refreshes its buttons, the embedded one only its label.
on_state_change_callback(u, res) ==
    IF u.widget = "float" /\ res.notes # <<>>
          /\ res.notes[1].cb = "on_state_change"
    THEN update_control_buttons(u, res.t.state)
    ELSE u

\* ---------------------------------------------------- the interval ghost
\* kind: the start call that began the interval in progress ("none" before
\* the first start and after reset); dur: its duration; ticks: tick() calls
\* since; only_ticks: nothing but tick() was called since the start;
\* completions: how many of those ticks reported completion.
NoRun == [kind |-> "none", dur |-> 0, ticks |-> 0, only_ticks |-> FALSE,
          completions |-> 0]
NewRun(kind, d) ==
    [kind |-> kind, dur |-> d, ticks |-> 0, only_ticks |-> TRUE,
     completions |-> 0]
Ticked(r, completed) ==
    [r EXCEPT !.ticks = @ + 1,
              !.completions = IF completed THEN @ + 1 ELSE @]
Disturbed(r) == [r EXCEPT !.only_ticks = FALSE]

\* ------------------------------------------------------------ Spec: timer
\* One call of a timer method: res is the method's result on the timer.
Call(name, d, res, r) ==
    /\ pomodoro_timer' = res.t
    /\ notes' = res.notes
    /\ ret' = res.ret
    /\ op' = [name |-> name, d |-> d]
    /\ run' = r

\* A step that calls no timer method.
NoCall ==
    /\ op' = [name |-> "none", d |-> 0]
    /\ ret' = FALSE
    /\ notes' = <<>>
    /\ UNCHANGED <<pomodoro_timer, run>>

TimerInit ==
    /\ pomodoro_timer = NewTimer
    /\ now = 0
    /\ op = [name |-> "__init__", d |-> 0]
    /\ ret = FALSE
    /\ notes = <<>>
    /\ run = NoRun

Init ==
    /\ TimerInit
    /\ ui = NoWidget
    /\ db = NewDatabase

\* The caller sets the duration attribute, then starts (as both widgets do).
StartWork(d) ==
    /\ Call("start_work", d,
            start_work([pomodoro_timer EXCEPT !.WORK_DURATION = d], now),
            NewRun("work", d))
    /\ UNCHANGED <<now, ui, db>>

StartShortBreak(d) ==
    /\ Call("start_short_break", d,
            start_short_break([pomodoro_timer EXCEPT !.SHORT_BREAK_DURATION = d]),
            NewRun("short", d))
    /\ UNCHANGED <<now, ui, db>>

StartLongBreak(d) ==
    /\ Call("start_long_break", d,
            start_long_break([pomodoro_timer EXCEPT !.LONG_BREAK_DURATION = d]),
            NewRun("long", d))
    /\ UNCHANGED <<now, ui, db>>

Pause ==
    /\ Call("pause", 0, pause(pomodoro_timer), Disturbed(run))
    /\ UNCHANGED <<now, ui, db>>

Resume ==
    /\ Call("resume", 0, resume(pomodoro_timer), Disturbed(run))
    /\ UNCHANGED <<now, ui, db>>

Reset ==
    /\ Call("reset", 0, reset(pomodoro_timer), NoRun)
    /\ UNCHANGED <<now, ui, db>>

\* One second passes, then tick() is called.
Tick ==
    /\ now < MaxNow
    /\ now' = now + 1
    /\ LET res == tick(pomodoro_timer)
       IN Call("tick", 0, res, Ticked(run, res.ret))
    /\ UNCHANGED <<ui, db>>

Next ==
    \/ \E d \in 1..MaxDur : StartWork(d)
    \/ \E d \in 1..MaxDur : StartShortBreak(d)
    \/ \E d \in 1..MaxDur : StartLongBreak(d)
    \/ Pause
    \/ Resume
    \/ Reset
    \/ Tick

Spec == Init /\ [][Next]_vars

\* ---------------------------------------------------------- SpecUI: widget
\* An unhandled exception in a slot ends the application.
Alive == ui.raised = ""

\* A database left by an earlier session: its tasks, and settings that hold
\* work, short and long.
StoredDatabase(work, short, long) ==
    save_config([NewDatabase EXCEPT !.tasks = 1..MaxTasks,
                                    !.task_seq = MaxTasks],
                work, short, long)

\* MainWindow._toggle_pomodoro: the FloatPomodoroWidget over the database.
InitUI ==
    /\ TimerInit
    /\ \E work \in 1..MaxMinutes, short \in 1..MaxMinutes, long \in 1..MaxMinutes :
          /\ db = StoredDatabase(work, short, long)
          /\ ui = NewFloatWidget(db)

\* PomodoroWidget.__init__ over the database: its DurationSelector loads the
\* settings.
InitEmbedded ==
    /\ TimerInit
    /\ \E work \in 1..MaxMinutes, short \in 1..MaxMinutes, long \in 1..MaxMinutes :
          LET lc == load_config(StoredDatabase(work, short, long))
          IN /\ ui = NewWidget("embedded", lc.work, lc.short, lc.long)
             /\ db = lc.d

\* A click on mode button mode (0 work, 1 short break, 2 long break): Qt
\* toggles the checkable button, then _on_mode_selected runs.
OnModeSelected(mode) ==
    /\ Alive
    /\ ui.mode_enabled
    /\ LET u1 == [ui EXCEPT
                    !.work_checked = IF mode = 0 THEN ~@ ELSE @,
                    !.short_checked = IF mode = 1 THEN ~@ ELSE @,
                    !.long_checked = IF mode = 2 THEN ~@ ELSE @]
       IN ui' = IF pomodoro_timer.state = IDLE
                THEN [u1 EXCEPT !.work_checked = (mode = 0),
                                !.short_checked = (mode = 1),
                                !.long_checked = (mode = 2)]
                ELSE u1
    /\ NoCall
    /\ UNCHANGED <<now, db>>

\* _on_start_clicked
OnStartClicked ==
    /\ Alive
    /\ ui.start_enabled
    /\ LET kind == IF ui.work_checked THEN "work"
                   ELSE IF ui.short_checked THEN "short" ELSE "long"
           d == CASE kind = "work" -> ui.work_minutes * SecondsPerMinute
                  [] kind = "short" -> ui.short_minutes * SecondsPerMinute
                  [] kind = "long" -> ui.long_minutes * SecondsPerMinute
           res == CASE kind = "work" ->
                         start_work([pomodoro_timer EXCEPT !.WORK_DURATION = d], now)
                    [] kind = "short" ->
                         start_short_break(
                             [pomodoro_timer EXCEPT !.SHORT_BREAK_DURATION = d])
                    [] kind = "long" ->
                         start_long_break(
                             [pomodoro_timer EXCEPT !.LONG_BREAK_DURATION = d])
           u1 == [on_state_change_callback(ui, res) EXCEPT !.timer_active = TRUE]
       IN /\ Call(IF kind = "work" THEN "start_work"
                  ELSE IF kind = "short" THEN "start_short_break"
                  ELSE "start_long_break",
                  d, res, NewRun(kind, d))
          /\ ui' = IF ui.widget = "float"
                   THEN update_control_buttons(u1, res.t.state)
                   ELSE [u1 EXCEPT !.start_enabled = FALSE,
                                   !.pause_enabled = TRUE,
                                   !.selector_enabled = FALSE]
    /\ UNCHANGED <<now, db>>

\* _on_pause_clicked
OnPauseClicked ==
    /\ Alive
    /\ ui.pause_enabled
    /\ IF pomodoro_timer.state = PAUSED
       THEN LET res == resume(pomodoro_timer)
            IN /\ Call("resume", 0, res, Disturbed(run))
               /\ ui' = [on_state_change_callback(ui, res)
                            EXCEPT !.timer_active = TRUE]
       ELSE LET res == pause(pomodoro_timer)
            IN /\ Call("pause", 0, res, Disturbed(run))
               /\ ui' = [on_state_change_callback(ui, res)
                            EXCEPT !.timer_active = FALSE]
    /\ UNCHANGED <<now, db>>

\* _on_reset_clicked that first saves the time worked so far.
OnResetClicked_saves ==
    /\ Alive
    /\ LET res == reset(pomodoro_timer)
           u1 == on_state_change_callback([ui EXCEPT !.timer_active = FALSE], res)
           saved == create_pomodoro(db, ui.current_task_id,
                                    get_actual_duration(pomodoro_timer),
                                    isoformat(get_start_time(pomodoro_timer)),
                                    isoformat(get_end_time(now)), run)
       IN /\ Call("reset", 0, res, NoRun)
          /\ ui' = IF ui.widget = "float"
                   THEN update_control_buttons(u1, res.t.state)
                   ELSE [u1 EXCEPT !.start_enabled = TRUE,
                                   !.pause_enabled = FALSE,
                                   !.selector_enabled = TRUE]
          /\ db' = IF pomodoro_timer.state = WORKING THEN saved.d ELSE db
    /\ UNCHANGED now

\* _on_reset_clicked
OnResetClicked ==
    /\ Alive
    /\ LET res == reset(pomodoro_timer)
           u1 == on_state_change_callback([ui EXCEPT !.timer_active = FALSE], res)
       IN /\ Call("reset", 0, res, NoRun)
          /\ ui' = IF ui.widget = "float"
                   THEN update_control_buttons(u1, res.t.state)
                   ELSE [u1 EXCEPT !.start_enabled = TRUE,
                                   !.pause_enabled = FALSE,
                                   !.selector_enabled = TRUE]
    /\ UNCHANGED <<now, db>>

\* _on_pomodoro_completed, run with the timer t a completing tick left, at
\* time clock.  Gives [u: the widget afterwards, d: the database afterwards].
on_pomodoro_completed(u, d, t, clock, interval) ==
    LET u1 == [u EXCEPT !.timer_active = FALSE]
        duration == get_actual_duration(t)
        start == get_start_time(t)
        end == get_end_time(clock)
        records == t.state = WORKING /\ u.current_task_id # None
        created == create_pomodoro(d, u.current_task_id, duration,
                                   isoformat(start), isoformat(end), interval)
        u2 == IF t.state = WORKING
              THEN IF u.widget = "float"
                   THEN [u1 EXCEPT !.short_checked = TRUE,
                                   !.work_checked = FALSE,
                                   !.long_checked = FALSE]
                   ELSE [u1 EXCEPT !.short_checked = TRUE]
              ELSE IF u.widget = "float"
                   THEN [u1 EXCEPT !.work_checked = TRUE,
                                   !.short_checked = FALSE,
                                   !.long_checked = FALSE]
                   ELSE [u1 EXCEPT !.work_checked = TRUE]
        u3 == IF u.widget = "float"
              THEN update_control_buttons(u2, t.state)
              ELSE [u2 EXCEPT !.start_enabled = TRUE,
                              !.pause_enabled = FALSE,
                              !.selector_enabled = TRUE]
    IN IF records /\ start = None
       THEN \* start.isoformat() on None
            [u |-> [u1 EXCEPT !.raised = "AttributeError"], d |-> d]
       ELSE IF records /\ created.raised # ""
       THEN [u |-> [u1 EXCEPT !.raised = created.raised], d |-> created.d]
       ELSE [u |-> u3, d |-> IF records THEN created.d ELSE d]

\* _on_timer_tick: the QTimer fires, one second after the last time.
OnTimerTick ==
    /\ Alive
    /\ ui.timer_active
    /\ now < MaxNow
    /\ now' = now + 1
    /\ LET res == tick(pomodoro_timer)
           r == Ticked(run, res.ret)
           done == on_pomodoro_completed(ui, db, res.t, now + 1, r)
       IN /\ Call("tick", 0, res, r)
          /\ ui' = IF res.ret THEN done.u ELSE ui
          /\ db' = IF res.ret THEN done.d ELSE db

\* TodoWidget._on_task_clicked: task_selected reaches set_task.
OnTaskClicked(task_id) ==
    /\ Alive
    /\ task_id \in db.tasks
    /\ ui' = [ui EXCEPT !.todo_task_id = task_id,
                        !.current_task_id = task_id]
    /\ NoCall
    /\ UNCHANGED <<now, db>>

\* TodoWidget._on_delete_task, confirmed: the widget is not told.
OnDeleteTask ==
    /\ Alive
    /\ ui.todo_task_id # None
    /\ db' = delete_task(db, ui.todo_task_id)
    /\ ui' = [ui EXCEPT !.todo_task_id = None]
    /\ NoCall
    /\ UNCHANGED now

\* FloatPomodoroWidget._on_card_wheel, delta the sign of the wheel's angle.
OnCardWheel(delta) ==
    /\ Alive
    /\ pomodoro_timer.state = IDLE
    /\ LET Max(a, b) == IF a > b THEN a ELSE b
           Min(a, b) == IF a < b THEN a ELSE b
           key == IF ui.work_checked THEN "work_duration"
                  ELSE IF ui.short_checked THEN "short_break_duration"
                  ELSE "long_break_duration"
           minutes == IF ui.work_checked
                      THEN Max(1, Min(120, ui.work_minutes + delta))
                      ELSE IF ui.short_checked
                      THEN Max(1, Min(60, ui.short_minutes + delta))
                      ELSE Max(1, Min(120, ui.long_minutes + delta))
       IN /\ minutes <= MaxMinutes
          /\ ui' = IF ui.work_checked THEN [ui EXCEPT !.work_minutes = minutes]
                   ELSE IF ui.short_checked
                   THEN [ui EXCEPT !.short_minutes = minutes]
                   ELSE [ui EXCEPT !.long_minutes = minutes]
          /\ db' = set_setting(db, key, str(minutes))
    /\ NoCall
    /\ UNCHANGED now

\* A spin box of the DurationSelector is set to value: valueChanged runs
\* _on_duration_changed, which saves all three.
OnDurationChanged(box, value) ==
    /\ Alive
    /\ ui.selector_enabled
    /\ LET u1 == CASE box = 0 -> [ui EXCEPT !.work_minutes = value]
                   [] box = 1 -> [ui EXCEPT !.short_minutes = value]
                   [] box = 2 -> [ui EXCEPT !.long_minutes = value]
       IN /\ u1 # ui
          /\ ui' = u1
          /\ db' = save_config(db, u1.work_minutes, u1.short_minutes,
                               u1.long_minutes)
    /\ NoCall
    /\ UNCHANGED now

NextUI ==
    \/ \E mode \in 0..2 : OnModeSelected(mode)
    \/ OnStartClicked
    \/ OnPauseClicked
    \/ OnResetClicked
    \/ OnTimerTick
    \/ \E task_id \in 1..MaxTasks : OnTaskClicked(task_id)
    \/ OnDeleteTask
    \/ \E delta \in {-1, 1} : OnCardWheel(delta)

SpecUI == InitUI /\ [][NextUI]_vars

NextEmbedded ==
    \/ \E mode \in 0..2 : OnModeSelected(mode)
    \/ OnStartClicked
    \/ OnPauseClicked
    \/ OnResetClicked
    \/ OnTimerTick
    \/ \E task_id \in 1..MaxTasks : OnTaskClicked(task_id)
    \/ OnDeleteTask
    \/ \E box \in 0..2 : \E value \in 1..MaxMinutes : OnDurationChanged(box, value)

SpecEmbedded == InitEmbedded /\ [][NextEmbedded]_vars

\* ---------------------------------------------------- the Database alone
\* A caller of the Database methods: op holds the method and its arguments,
\* ret what it returned (lastrowid in id, fetched rows in rows, the
\* statistics in stats) or raised.
NoArgs ==
    [id |-> None, task_id |-> None, duration |-> None,
     start_time |-> <<>>, end_time |-> <<>>]

NoReturn ==
    [id |-> None, rows |-> <<>>,
     stats |-> [today_count |-> None, today_duration |-> None,
                all_time_duration |-> None],
     raised |-> ""]

StoreCall(name, args, returned) ==
    /\ op' = [name |-> name, d |-> args]
    /\ ret' = returned
    /\ UNCHANGED <<pomodoro_timer, notes, run, ui>>

InitStore ==
    /\ pomodoro_timer = NewTimer
    /\ now = 0
    /\ op = [name |-> "__init__", d |-> NoArgs]
    /\ ret = NoReturn
    /\ notes = <<>>
    /\ run = NoRun
    /\ ui = NoWidget
    /\ db = NewDatabase

CreateTask ==
    /\ db.task_seq < MaxTasks
    /\ LET created == create_task(db)
       IN /\ db' = created.d
          /\ StoreCall("create_task", NoArgs,
                       [NoReturn EXCEPT !.id = created.id])
    /\ UNCHANGED now

DeleteTask(task_id) ==
    /\ db' = delete_task(db, task_id)
    /\ StoreCall("delete_task", [NoArgs EXCEPT !.task_id = task_id], NoReturn)
    /\ UNCHANGED now

\* create_pomodoro for an interval of the given duration begun at start.
CreatePomodoro(task_id, duration, start) ==
    /\ db.seq < MaxRows
    /\ LET start_time == isoformat(start)
           end_time == isoformat(start + duration)
           created == create_pomodoro(db, task_id, duration, start_time,
                                      end_time, NoRun)
       IN /\ db' = created.d
          /\ StoreCall("create_pomodoro",
                       [NoArgs EXCEPT !.task_id = task_id,
                                      !.duration = duration,
                                      !.start_time = start_time,
                                      !.end_time = end_time],
                       [NoReturn EXCEPT !.id = created.id,
                                        !.raised = created.raised])
    /\ UNCHANGED now

DeletePomodoro(pomodoro_id) ==
    /\ db' = delete_pomodoro(db, pomodoro_id)
    /\ StoreCall("delete_pomodoro", [NoArgs EXCEPT !.id = pomodoro_id],
                 NoReturn)
    /\ UNCHANGED now

GetPomodorosByTask(task_id) ==
    /\ StoreCall("get_pomodoros_by_task", [NoArgs EXCEPT !.task_id = task_id],
                 [NoReturn EXCEPT !.rows = get_pomodoros_by_task(db, task_id)])
    /\ UNCHANGED <<db, now>>

GetTodayPomodoros ==
    /\ StoreCall("get_today_pomodoros", NoArgs,
                 [NoReturn EXCEPT !.rows = get_today_pomodoros(db, now)])
    /\ UNCHANGED <<db, now>>

GetAllPomodoros ==
    /\ StoreCall("get_all_pomodoros", NoArgs,
                 [NoReturn EXCEPT !.rows = get_all_pomodoros(db)])
    /\ UNCHANGED <<db, now>>

GetPomodoroStats ==
    /\ StoreCall("get_pomodoro_stats", NoArgs,
                 [NoReturn EXCEPT !.stats = get_pomodoro_stats(db, now)])
    /\ UNCHANGED <<db, now>>

\* A second passes with no call.
ClockTick ==
    /\ now < MaxNow
    /\ now' = now + 1
    /\ StoreCall("none", NoArgs, NoReturn)
    /\ UNCHANGED db

NextStore ==
    \/ CreateTask
    \/ \E task_id \in 1..MaxTasks : DeleteTask(task_id)
    \/ \E task_id \in {None} \cup (1..MaxTasks) :
          \E duration \in 1..MaxDur : \E start \in 0..now :
             CreatePomodoro(task_id, duration, start)
    \/ \E pomodoro_id \in 1..MaxRows : DeletePomodoro(pomodoro_id)
    \/ \E task_id \in {None} \cup (1..MaxTasks) : GetPomodorosByTask(task_id)
    \/ GetTodayPomodoros
    \/ GetAllPomodoros
    \/ GetPomodoroStats
    \/ ClockTick

SpecStore == InitStore /\ [][NextStore]_vars

\* ------------------------------------------------- the settings table alone
\* The strings a caller passes as value or default: the empty string and
\* the decimal strings of small numbers.
SettingValues == {<<>>} \cup {str(n) : n \in 0..MaxMinutes}

\* op holds the method, its key and its value or default; ret the string
\* returned (NoRow for None).
InitSettings ==
    /\ pomodoro_timer = NewTimer
    /\ now = 0
    /\ op = [name |-> "__init__", d |-> [key |-> "", value |-> <<>>]]
    /\ ret = NoRow
    /\ notes = <<>>
    /\ run = NoRun
    /\ ui = NoWidget
    /\ db = NewDatabase

SetSetting(key, value) ==
    /\ db' = set_setting(db, key, value)
    /\ op' = [name |-> "set_setting", d |-> [key |-> key, value |-> value]]
    /\ ret' = NoRow
    /\ UNCHANGED <<pomodoro_timer, now, notes, run, ui>>

GetSetting(key, default) ==
    /\ op' = [name |-> "get_setting", d |-> [key |-> key, value |-> default]]
    /\ ret' = get_setting(db, key, default)
    /\ UNCHANGED <<pomodoro_timer, now, notes, run, ui, db>>

NextSettings ==
    \/ \E key \in SettingKeys : \E value \in SettingValues :
          SetSetting(key, value)
    \/ \E key \in SettingKeys : \E default \in SettingValues :
          GetSetting(key, default)

SpecSettings == InitSettings /\ [][NextSettings]_vars

\* ------------------------------- get_pomodoro_stats beside another writer
\* get_pomodoro_stats runs three SELECTs, each its own read transaction, on a
\* connection that holds no lock between them; another connection to the
\* same file (every Database method opens its own) can commit in between.
\* op.d counts the SELECTs of the call that were answered, ret holds their
\* answers so far, run.seen the contents of pomodoros during the call.
NoStats ==
    [today_count |-> None, today_duration |-> None, all_time_duration |-> None]

InitStats ==
    /\ pomodoro_timer = NewTimer
    /\ now \in 0..MaxNow
    /\ op = [name |-> "__init__", d |-> 0]
    /\ ret = NoStats
    /\ notes = <<>>
    /\ run = [seen |-> {}]
    /\ ui = NoWidget
    /\ db = [NewDatabase EXCEPT !.tasks = 1..MaxTasks, !.task_seq = MaxTasks]

\* SELECT COUNT(*) ... WHERE DATE(start_time) = DATE('now', 'localtime')
SelectTodayCount ==
    /\ op.name = "__init__" \/ op.d = 3
    /\ op' = [name |-> "get_pomodoro_stats", d |-> 1]
    /\ ret' = [NoStats EXCEPT !.today_count = COUNT(today(db, now))]
    /\ run' = [seen |-> {db.pomodoros}]
    /\ UNCHANGED <<pomodoro_timer, now, notes, ui, db>>

\* SELECT SUM(duration) ... WHERE DATE(start_time) = DATE('now', 'localtime')
SelectTodayDuration ==
    /\ op.name = "get_pomodoro_stats" /\ op.d = 1
    /\ op' = [op EXCEPT !.d = 2]
    /\ ret' = [ret EXCEPT !.today_duration = or_0(SUM(today(db, now)))]
    /\ UNCHANGED <<pomodoro_timer, now, notes, run, ui, db>>

\* SELECT SUM(duration) FROM pomodoros, and the return.
SelectAllTimeDuration ==
    /\ op.name = "get_pomodoro_stats" /\ op.d = 2
    /\ op' = [op EXCEPT !.d = 3]
    /\ ret' = [ret EXCEPT !.all_time_duration = or_0(SUM(db.pomodoros))]
    /\ UNCHANGED <<pomodoro_timer, now, notes, run, ui, db>>

\* create_pomodoro committed on another connection.
OtherCreatePomodoro(task_id, duration, start) ==
    /\ db.seq < MaxRows
    /\ db' = create_pomodoro(db, task_id, duration, isoformat(start),
                             isoformat(start + duration), NoRun).d
    /\ run' = IF op.d \in {1, 2}
              THEN [seen |-> run.seen \cup {db'.pomodoros}]
              ELSE [seen |-> {}]
    /\ UNCHANGED <<pomodoro_timer, now, op, ret, notes, ui>>

\* delete_pomodoro committed on another connection.
OtherDeletePomodoro(pomodoro_id) ==
    /\ \E r \in db.pomodoros : r.id = pomodoro_id
    /\ db' = delete_pomodoro(db, pomodoro_id)
    /\ run' = IF op.d \in {1, 2}
              THEN [seen |-> run.seen \cup {db'.pomodoros}]
              ELSE [seen |-> {}]
    /\ UNCHANGED <<pomodoro_timer, now, op, ret, notes, ui>>

NextStats ==
    \/ SelectTodayCount
    \/ SelectTodayDuration
    \/ SelectAllTimeDuration
    \/ \E task_id \in {None} \cup (1..MaxTasks) :
          \E duration \in 1..MaxDur : \E start \in {0, now} :
             OtherCreatePomodoro(task_id, duration, start)
    \/ \E pomodoro_id \in 1..MaxRows : OtherDeletePomodoro(pomodoro_id)

SpecStats == InitStats /\ [][NextStats]_vars

\* ------------------------------------------- the DurationSelector's loading
\* A database an earlier session left, each duration either a value the user
\* chose or the default; no widget exists yet.
InitSelector ==
    /\ TimerInit
    /\ ui = NoWidget
    /\ \E work \in 1..MaxMinutes \cup {25}, short \in 1..MaxMinutes \cup {5},
          long \in 1..MaxMinutes \cup {15} :
          db = StoredDatabase(work, short, long)

\* PomodoroWidget._init_ui constructs DurationSelector(self.db), whose
\* __init__ runs _init_ui and then _load_config.
SelectorLoadConfig ==
    /\ ui.widget = "none"
    /\ LET lc == load_config(db)
       IN /\ ui' = NewWidget("embedded", lc.work, lc.short, lc.long)
          /\ db' = lc.d
    /\ op' = [name |-> "_load_config", d |-> 0]
    /\ ret' = FALSE
    /\ notes' = <<>>
    /\ UNCHANGED <<pomodoro_timer, run, now>>

\* The user edits a spin box of the constructed selector.
SelectorDurationChanged(box, value) ==
    /\ ui.widget = "embedded"
    /\ OnDurationChanged(box, value)

\* DurationSelector._reset_config: setValue on the three spin boxes in turn,
\* each one that changes saving all three as they are at that moment.
SelectorResetConfig ==
    /\ ui.widget = "embedded"
    /\ Alive
    /\ ui.selector_enabled
    /\ LET d1 == IF ui.work_minutes # 25
                 THEN save_config(db, 25, ui.short_minutes, ui.long_minutes)
                 ELSE db
           d2 == IF ui.short_minutes # 5
                 THEN save_config(d1, 25, 5, ui.long_minutes) ELSE d1
           d3 == IF ui.long_minutes # 15
                 THEN save_config(d2, 25, 5, 15) ELSE d2
       IN db' = d3
    /\ ui' = [ui EXCEPT !.work_minutes = 25, !.short_minutes = 5,
                        !.long_minutes = 15]
    /\ op' = [name |-> "_reset_config", d |-> 0]
    /\ ret' = FALSE
    /\ notes' = <<>>
    /\ UNCHANGED <<pomodoro_timer, run, now>>

\* A mode button of the constructed widget.
SelectorModeSelected(mode) ==
    /\ ui.widget = "embedded"
    /\ OnModeSelected(mode)

NextSelector ==
    \/ SelectorLoadConfig
    \/ \E box \in 0..2 : \E value \in 1..MaxMinutes :
          SelectorDurationChanged(box, value)
    \/ SelectorResetConfig
    \/ \E mode \in 0..2 : SelectorModeSelected(mode)

SpecSelector == InitSelector /\ [][NextSelector]_vars

\* ------------------------------------------------ one interval, with fairness
\* One start call, then only tick(), pause() and resume() until a tick
\* reports completion.  pause() outside a running state and resume() outside
\* PAUSED return at their guards, so they are called where they act.
InitLive ==
    /\ TimerInit
    /\ ui = NoWidget
    /\ db = NewDatabase

LiveStartWork(d) ==
    /\ run.kind = "none"
    /\ StartWork(d)

LiveStartShortBreak(d) ==
    /\ run.kind = "none"
    /\ StartShortBreak(d)

LiveStartLongBreak(d) ==
    /\ run.kind = "none"
    /\ StartLongBreak(d)

LivePause ==
    /\ run.kind # "none"
    /\ run.completions = 0
    /\ pomodoro_timer.state \in Running
    /\ Pause

LiveResume ==
    /\ run.kind # "none"
    /\ run.completions = 0
    /\ pomodoro_timer.state = PAUSED
    /\ Resume

\* The periodic trigger: a second passes and tick() is called.  The clock
\* and the count of ticks stop counting at MaxNow; the ticks go on.
LiveTick ==
    /\ run.kind # "none"
    /\ run.completions = 0
    /\ now' = IF now < MaxNow THEN now + 1 ELSE now
    /\ LET res == tick(pomodoro_timer)
           r == IF run.ticks < MaxNow THEN Ticked(run, res.ret)
                ELSE [run EXCEPT !.completions = IF res.ret THEN @ + 1 ELSE @]
       IN Call("tick", 0, res, r)
    /\ UNCHANGED <<ui, db>>

NextLive ==
    \/ \E d \in 1..MaxDur : LiveStartWork(d)
    \/ \E d \in 1..MaxDur : LiveStartShortBreak(d)
    \/ \E d \in 1..MaxDur : LiveStartLongBreak(d)
    \/ LivePause
    \/ LiveResume
    \/ LiveTick

\* The QTimer keeps firing, and every pause is followed by a resume.
SpecLive ==
    InitLive /\ [][NextLive]_vars /\ WF_vars(LiveTick) /\ WF_vars(LiveResume)

\* ================================================================ claims
\* C1: after startWork with duration d, d calls of tick() bring
\* remainingSeconds to 0 on the d-th call, the d-th call is the only one of
\* them that reports completion, and elapsedSeconds = d afterwards.
C1_DthTickReportsCompletion ==
    (/\ op.name = "tick"
     /\ run.kind = "work"
     /\ run.only_ticks
     /\ run.ticks <= run.dur)
    => /\ ret = (run.ticks = run.dur)
       /\ run.ticks = run.dur
            => /\ pomodoro_timer.remaining_seconds = 0
               /\ pomodoro_timer.elapsed_seconds = run.dur

\* C2: every tick that reports completion in Working makes the widget
\* record exactly one pomodoros row, with or without a selected task.
C2_EveryWorkingCompletionIsRecorded ==
    [][(op'.name = "tick" /\ ret' /\ pomodoro_timer.state = WORKING)
       => /\ db.pomodoros \subseteq db'.pomodoros
          /\ Cardinality(db'.pomodoros) = Cardinality(db.pomodoros) + 1]_vars

\* C3: an interval begun by startShortBreak or startLongBreak never gives a
\* pomodoros row, whatever pause, resume and tick calls follow its start.
C3_BreaksAreNeverRecorded ==
    \A r \in db.pomodoros : r.interval.kind = "work"

\* C4: the widget adds a pomodoros row only in the step of a tick that
\* reported completion, so an interval cut short by reset() or by a new
\* start is never recorded; its handlers remove no row (only deleting a
\* task does).
C4_OnlyCompletionRecords ==
    /\ [](\A r \in db.pomodoros : r.interval.completions = 1)
    /\ [][db'.pomodoros # db.pomodoros
          => \/ /\ op'.name = "tick"
                /\ ret'
                /\ db.pomodoros \subseteq db'.pomodoros
                /\ Cardinality(db'.pomodoros) = Cardinality(db.pomodoros) + 1
             \/ /\ db'.tasks # db.tasks
                /\ db'.pomodoros \subseteq db.pomodoros]_vars

\* A 2-minute work interval, the only interval ever started, was reset
\* after its first tick with a task selected: nothing was recorded.
C4_Witness ==
    /\ op.name = "reset"
    /\ now = 1
    /\ pomodoro_timer.WORK_DURATION = 2 * SecondsPerMinute
    /\ pomodoro_timer.SHORT_BREAK_DURATION = SHORT_BREAK_DURATION
    /\ pomodoro_timer.LONG_BREAK_DURATION = LONG_BREAK_DURATION
    /\ ui.current_task_id \in db.tasks
    /\ db.pomodoros = {}

\* C5: completedWorkSessions grows by exactly 1 with a completion reported
\* in Working, by 0 with a completion reported in a break, and by 0 with
\* every other call.
C5_SessionsCountWorkingCompletions ==
    [][pomodoro_timer'.work_sessions =
         pomodoro_timer.work_sessions
         + (IF op'.name = "tick" /\ ret' /\ pomodoro_timer.state = WORKING
            THEN 1 ELSE 0)]_vars

C5_Witness ==
    /\ op.name = "tick"
    /\ ret
    /\ pomodoro_timer.state \in {SHORT_BREAK, LONG_BREAK}
    /\ pomodoro_timer.work_sessions = 1

\* C6: completedWorkSessions is incremented only when an interval begun by
\* startWork reaches zero, never by one begun by startShortBreak or
\* startLongBreak, paused and resumed or not.
C6_OnlyStartWorkIntervalsCount ==
    [][pomodoro_timer'.work_sessions > pomodoro_timer.work_sessions
       => run'.kind = "work"]_vars

\* C7: completedWorkSessions never decreases, reset() and the start calls
\* leave it unchanged, and it is 0 when the timer is created.
C7_SessionsMonotonic ==
    /\ pomodoro_timer.work_sessions = 0
    /\ [][/\ pomodoro_timer'.work_sessions >= pomodoro_timer.work_sessions
          /\ op'.name \in {"reset", "start_work", "start_short_break",
                           "start_long_break"}
               => pomodoro_timer'.work_sessions = pomodoro_timer.work_sessions
         ]_vars

C7_Witness ==
    /\ op.name = "reset"
    /\ pomodoro_timer.work_sessions = 1

\* C8: pause() in a running state followed at once by resume() leaves
\* remainingSeconds and elapsedSeconds as they were before the pause, and
\* ends running when elapsed < remaining, in Idle otherwise.
C8_PauseResume ==
    [][(op'.name = "pause" /\ pomodoro_timer.state \in Running)
       => LET resumed == resume(pomodoro_timer').t
          IN /\ resumed.remaining_seconds = pomodoro_timer.remaining_seconds
             /\ resumed.elapsed_seconds = pomodoro_timer.elapsed_seconds
             /\ pomodoro_timer.elapsed_seconds < pomodoro_timer.remaining_seconds
                  => resumed.state \in Running
             /\ pomodoro_timer.elapsed_seconds >= pomodoro_timer.remaining_seconds
                  => resumed.state = IDLE]_vars

C8_Witness ==
    /\ op.name = "resume"
    /\ notes # <<>>
    /\ pomodoro_timer.elapsed_seconds = pomodoro_timer.remaining_seconds
    /\ pomodoro_timer.elapsed_seconds > 0
    /\ pomodoro_timer.state = IDLE

\* C9: reset() from any state ends Idle with remainingSeconds equal to the
\* timer's work duration (never 0), elapsedSeconds 0 and no start time, and
\* fires the state-change callback even if the state was Idle already.
C9_Reset ==
    [][op'.name = "reset"
       => /\ pomodoro_timer'.state = IDLE
          /\ pomodoro_timer'.remaining_seconds = pomodoro_timer.WORK_DURATION
          /\ pomodoro_timer'.remaining_seconds # 0
          /\ pomodoro_timer'.elapsed_seconds = 0
          /\ pomodoro_timer'.start_time = None
          /\ notes' = <<on_state_change(IDLE)>>]_vars

C9_Witness ==
    /\ op.name = "reset"
    /\ pomodoro_timer.WORK_DURATION # WORK_DURATION
    /\ pomodoro_timer.remaining_seconds = pomodoro_timer.WORK_DURATION
    /\ notes = <<on_state_change(IDLE)>>

\* C10: pause() in Idle or Paused and resume() in any state but Paused
\* change no attribute of the timer and fire no callback.
C10_InvalidTransitionsAreNoOps ==
    [][(\/ op'.name = "pause" /\ pomodoro_timer.state \in {IDLE, PAUSED}
        \/ op'.name = "resume" /\ pomodoro_timer.state # PAUSED)
       => /\ pomodoro_timer' = pomodoro_timer
          /\ notes' = <<>>]_vars

C10_Witness ==
    /\ op.name = "pause"
    /\ pomodoro_timer.state = PAUSED
    /\ pomodoro_timer.start_time # None
    /\ notes = <<>>

\* C11: tick() in Idle or Paused returns not-completed, changes no attribute
\* of the timer and fires no callback; elapsed time grows only by a tick()
\* in a running state.
C11_TickOutsideRunningIsNoOp ==
    [][/\ (op'.name = "tick" /\ pomodoro_timer.state \in {IDLE, PAUSED})
            => /\ ret' = FALSE
               /\ pomodoro_timer' = pomodoro_timer
               /\ notes' = <<>>
       /\ pomodoro_timer'.elapsed_seconds > pomodoro_timer.elapsed_seconds
            => /\ op'.name = "tick"
               /\ pomodoro_timer.state \in Running]_vars

C11_Witness ==
    /\ op.name = "tick"
    /\ pomodoro_timer.state = PAUSED
    /\ pomodoro_timer.remaining_seconds > 0
    /\ pomodoro_timer.elapsed_seconds > 0
    /\ ~ret
    /\ notes = <<>>

\* C12: a tick() that reports completion leaves state, remainingSeconds
\* (which is 0) and elapsedSeconds unchanged; the state changes only in a
\* start, pause, resume or reset call.
C12_CompletionLeavesStateAlone ==
    [][/\ (op'.name = "tick" /\ ret')
            => /\ pomodoro_timer'.state = pomodoro_timer.state
               /\ pomodoro_timer'.state \in Running
               /\ pomodoro_timer'.remaining_seconds = 0
               /\ pomodoro_timer.remaining_seconds = 0
               /\ pomodoro_timer'.elapsed_seconds
                    = pomodoro_timer.elapsed_seconds
       /\ pomodoro_timer'.state # pomodoro_timer.state
            => op'.name \in {"start_work", "start_short_break",
                             "start_long_break", "pause", "resume", "reset"}
      ]_vars

C12_Witness ==
    /\ op.name = "tick"
    /\ ret
    /\ pomodoro_timer.state = SHORT_BREAK
    /\ pomodoro_timer.remaining_seconds = 0

\* C13: each start call is accepted in every state and ends in its own
\* running state with remainingSeconds the duration configured for it and
\* elapsedSeconds 0; startWork while Working restarts the interval.
C13_StartsFromAnyState ==
    /\ [](\A d \in 1..MaxDur :
            LET w == start_work([pomodoro_timer EXCEPT !.WORK_DURATION = d],
                                now).t
                s == start_short_break(
                         [pomodoro_timer EXCEPT !.SHORT_BREAK_DURATION = d]).t
                l == start_long_break(
                         [pomodoro_timer EXCEPT !.LONG_BREAK_DURATION = d]).t
            IN /\ w.state = WORKING /\ s.state = SHORT_BREAK
               /\ l.state = LONG_BREAK
               /\ w.remaining_seconds = d /\ w.elapsed_seconds = 0
               /\ s.remaining_seconds = d /\ s.elapsed_seconds = 0
               /\ l.remaining_seconds = d /\ l.elapsed_seconds = 0)
    /\ [][op'.name \in {"start_work", "start_short_break", "start_long_break"}
          => /\ pomodoro_timer'.state =
                    (CASE op'.name = "start_work" -> WORKING
                       [] op'.name = "start_short_break" -> SHORT_BREAK
                       [] op'.name = "start_long_break" -> LONG_BREAK)
             /\ pomodoro_timer'.remaining_seconds = op'.d
             /\ pomodoro_timer'.remaining_seconds = get_duration(pomodoro_timer')
             /\ pomodoro_timer'.elapsed_seconds = 0]_vars

\* startWork(2) called again after a tick of the first work interval, the
\* only kind of interval ever started: the countdown is back at 2.
C13_Witness ==
    /\ op.name = "start_work"
    /\ op.d = 2
    /\ now >= 1
    /\ pomodoro_timer.start_time = now
    /\ pomodoro_timer.state = WORKING
    /\ pomodoro_timer.remaining_seconds = 2
    /\ pomodoro_timer.elapsed_seconds = 0
    /\ pomodoro_timer.SHORT_BREAK_DURATION = SHORT_BREAK_DURATION
    /\ pomodoro_timer.LONG_BREAK_DURATION = LONG_BREAK_DURATION

\* C14: while the timer is running, elapsedSeconds + remainingSeconds is
\* the duration get_duration() reports for the current state.
C14_ElapsedPlusRemainingIsDuration ==
    pomodoro_timer.state \in Running
    => pomodoro_timer.elapsed_seconds + pomodoro_timer.remaining_seconds
         = get_duration(pomodoro_timer)

\* C15: startTime is defined exactly while the current interval is a
\* Working interval: set by startWork, undefined in Idle, ShortBreak and
\* LongBreak, also for a break started after a Working interval.
C15_StartTimeOnlyWhileWorking ==
    /\ pomodoro_timer.state \in {IDLE, SHORT_BREAK, LONG_BREAK}
         => pomodoro_timer.start_time = None
    /\ (pomodoro_timer.state = WORKING /\ run.kind = "work")
         => pomodoro_timer.start_time # None

\* C16: every persisted row's duration equals the work duration configured
\* when its interval completed.
C16_RowDurationIsWorkDuration ==
    [][\A r \in db'.pomodoros \ db.pomodoros :
          r.duration = pomodoro_timer'.WORK_DURATION]_vars

\* The rows get_pomodoros_by_task returns for a task.
ListedForTask(d, task_id) ==
    LET listed == get_pomodoros_by_task(d, task_id)
    IN {listed[i] : i \in 1..Len(listed)}

\* C17: create_pomodoro followed by get_pomodoros_by_task(task_id) returns
\* exactly the rows recorded with that task_id, with the recorded task_id,
\* duration, start and end and the id create_pomodoro returned, and a listed
\* row stays as it is through later inserts and deletes of other rows.
C17_RecordThenListRoundTrip ==
    [][\A task_id \in 1..MaxTasks :
          LET before == ListedForTask(db, task_id)
              after == ListedForTask(db', task_id)
          IN /\ Len(get_pomodoros_by_task(db', task_id)) = Cardinality(after)
             /\ CASE op'.name = "create_pomodoro" /\ ret'.raised = ""
                        /\ op'.d.task_id = task_id
                      -> /\ ret'.id \notin {r.id : r \in before}
                         /\ after = before \cup
                              {[id |-> ret'.id,
                                task_id |-> task_id,
                                duration |-> op'.d.duration,
                                start_time |-> op'.d.start_time,
                                end_time |-> op'.d.end_time]}
                  [] op'.name = "delete_pomodoro"
                      -> after = {r \in before : r.id # op'.d.id}
                  [] op'.name = "delete_task" /\ op'.d.task_id = task_id
                      -> TRUE
                  [] OTHER -> after = before]_vars

\* Two rows were recorded and row 1 deleted: the listing for task 1 is row
\* 2 alone, under the id it was given.
C17_Witness ==
    /\ op.name = "get_pomodoros_by_task"
    /\ op.d.task_id = 1
    /\ Len(ret.rows) = 1
    /\ ret.rows[1].id = 2
    /\ ret.rows[1].task_id = 1
    /\ db.seq = 2
    /\ Cardinality(db.pomodoros) = 1

\* C18: pomodoros ids are unique, and the id create_pomodoro returns is
\* greater than every id returned before (db.seq, the largest so far), also
\* after the row with the largest id was deleted.
C18_IdsStrictlyIncreasing ==
    /\ [](\A r1, r2 \in db.pomodoros : r1.id = r2.id => r1 = r2)
    /\ [](\A r \in db.pomodoros : r.id <= db.seq)
    /\ [][/\ db'.seq >= db.seq
          /\ (op'.name = "create_pomodoro" /\ ret'.raised = "")
               => /\ ret'.id > db.seq
                  /\ db'.seq = ret'.id
                  /\ \E r \in db'.pomodoros \ db.pomodoros : r.id = ret'.id
          /\ op'.name # "create_pomodoro" => db'.seq = db.seq]_vars

\* Row 1 was recorded and deleted; the next create_pomodoro returned 2.
C18_Witness ==
    /\ op.name = "create_pomodoro"
    /\ ret.raised = ""
    /\ ret.id = 2
    /\ {r.id : r \in db.pomodoros} = {2}

\* The sum of the durations of the rows of a set, by id.
RECURSIVE DurationUpTo(_, _)
DurationUpTo(rows, n) ==
    IF n = 0 THEN 0
    ELSE DurationUpTo(rows, n - 1)
         + (IF \E r \in rows : r.id = n
            THEN (CHOOSE r \in rows : r.id = n).duration
            ELSE 0)

StartedToday(rows, clock) ==
    {r \in rows : r.start_time[1] = clock \div SecondsPerDay}

\* C19: after any sequence of create_pomodoro and delete_pomodoro calls,
\* get_pomodoro_stats returns today_count = the number of stored rows whose
\* start date is today, today_duration = the sum of their durations and
\* all_time_duration = the sum of the durations of all stored rows, 0 where
\* there is none.
C19_Statistics ==
    [][op'.name = "get_pomodoro_stats"
       => /\ ret'.raised = ""
          /\ ret'.stats.today_count
               = Cardinality(StartedToday(db'.pomodoros, now'))
          /\ ret'.stats.today_duration
               = DurationUpTo(StartedToday(db'.pomodoros, now'), db'.seq)
          /\ ret'.stats.all_time_duration
               = DurationUpTo(db'.pomodoros, db'.seq)]_vars

\* Two rows stored, one begun today and one on an earlier day.
C19_Witness ==
    /\ op.name = "get_pomodoro_stats"
    /\ Cardinality(db.pomodoros) = 2
    /\ ret.stats.today_count = 1
    /\ ret.stats.today_duration > 0
    /\ ret.stats.all_time_duration > ret.stats.today_duration

\* No row at all: both sums are 0.
C19_WitnessEmpty ==
    /\ op.name = "get_pomodoro_stats"
    /\ db.pomodoros = {}
    /\ db.seq > 0
    /\ ret.stats = [today_count |-> 0, today_duration |-> 0,
                    all_time_duration |-> 0]

\* C20: delete_pomodoro on an id that is not stored raises nothing and
\* leaves the rows as they are; on a stored id it removes exactly that row,
\* and get_pomodoro_stats goes down by exactly that row's contribution.
C20_DeleteInterval ==
    [][op'.name = "delete_pomodoro"
       => LET gone == {r \in db.pomodoros : r.id = op'.d.id}
              before == get_pomodoro_stats(db, now)
              after == get_pomodoro_stats(db', now')
          IN /\ ret'.raised = ""
             /\ db'.pomodoros = db.pomodoros \ gone
             /\ Cardinality(gone) <= 1
             /\ delete_pomodoro(db', op'.d.id) = db'
             /\ [db' EXCEPT !.pomodoros = db.pomodoros] = db
             /\ gone = {} => after = before
             /\ \A r \in gone :
                   LET is_today == r \in StartedToday(db.pomodoros, now)
                   IN /\ after.all_time_duration
                          = before.all_time_duration - r.duration
                      /\ after.today_count
                          = before.today_count - (IF is_today THEN 1 ELSE 0)
                      /\ after.today_duration
                          = before.today_duration
                            - (IF is_today THEN r.duration ELSE 0)]_vars

\* Row 1 of two rows was deleted.
C20_Witness ==
    /\ op.name = "delete_pomodoro"
    /\ op.d.id = 1
    /\ {r.id : r \in db.pomodoros} = {2}

\* delete_pomodoro of an id that is no longer stored.
C20_WitnessAbsent ==
    /\ op.name = "delete_pomodoro"
    /\ op.d.id = 1
    /\ db.seq = 2
    /\ {r.id : r \in db.pomodoros} = {2}
    /\ ret.raised = ""

\* C21: create_pomodoro does not validate task_id: also with a task_id that
\* is no existing task it succeeds, returns an id and stores the row.
C21_NoTaskIdValidation ==
    [][op'.name = "create_pomodoro"
       => /\ ret'.raised = ""
          /\ ret'.id # None
          /\ \E r \in db'.pomodoros \ db.pomodoros :
                r.id = ret'.id /\ r.task_id = op'.d.task_id]_vars

\* The rows of a fetched listing.
Fetched(rows) == {rows[i] : i \in 1..Len(rows)}

\* Start time a is the same as or later than start time b.
NotOlder(a, b) == a[1] > b[1] \/ (a[1] = b[1] /\ a[2] >= b[2])

\* C26: get_all_pomodoros, get_today_pomodoros and get_pomodoros_by_task
\* return their rows newest start time first: of two adjacent rows the first
\* has a start time >= the second's, whatever the insertion order.
C26_ListingsNewestFirst ==
    [][op'.name \in {"get_all_pomodoros", "get_today_pomodoros",
                     "get_pomodoros_by_task"}
       => /\ \A i \in 1..(Len(ret'.rows) - 1) :
                NotOlder(ret'.rows[i].start_time, ret'.rows[i + 1].start_time)
          /\ Cardinality(Fetched(ret'.rows)) = Len(ret'.rows)
          /\ op'.name = "get_all_pomodoros"
               => Fetched(ret'.rows) = {dict(r) : r \in db'.pomodoros}]_vars

\* Row 1 was inserted with an earlier start time than row 2: row 2 is listed
\* first.
C26_Witness ==
    /\ op.name = "get_all_pomodoros"
    /\ Len(ret.rows) = 2
    /\ ret.rows[1].id = 2
    /\ ret.rows[2].id = 1
    /\ ret.rows[1].start_time # ret.rows[2].start_time

\* C27: the today filter is evaluated at query time: get_today_pomodoros
\* returns exactly the stored rows whose start date is the current local
\* date, so a row of day D is returned on D and no longer on D+1 (nor counted
\* in today_count), while get_all_pomodoros and all_time_duration keep it.
C27_TodayIsEvaluatedAtQueryTime ==
    [][LET current == {dict(r) : r \in StartedToday(db'.pomodoros, now')}
           stale == {r \in db'.pomodoros :
                       r.start_time[1] < now' \div SecondsPerDay}
       IN /\ op'.name = "get_today_pomodoros"
               => /\ Fetched(ret'.rows) = current
                  /\ Len(ret'.rows) = Cardinality(current)
                  /\ \A r \in stale : dict(r) \notin Fetched(ret'.rows)
          /\ op'.name = "get_pomodoro_stats"
               => /\ ret'.stats.today_count = Cardinality(current)
                  /\ stale # {} =>
                        ret'.stats.all_time_duration
                          > ret'.stats.today_duration
          /\ op'.name = "get_all_pomodoros"
               => \A r \in stale : dict(r) \in Fetched(ret'.rows)]_vars

\* A row begun on an earlier day is stored and get_today_pomodoros returns
\* nothing.
C27_Witness ==
    /\ op.name = "get_today_pomodoros"
    /\ ret.rows = <<>>
    /\ \E r \in db.pomodoros : r.start_time[1] + 1 = now \div SecondsPerDay

\* C28: a tick() in a running state with remainingSeconds > 0 decrements
\* remainingSeconds by 1, increments elapsedSeconds by 1, returns
\* not-completed and fires exactly one on_tick carrying the new
\* remainingSeconds; a tick() that reports completion fires no on_tick.
C28_TickCountsDownAndNotifies ==
    [][op'.name = "tick"
       => /\ (pomodoro_timer.state \in Running
               /\ pomodoro_timer.remaining_seconds > 0)
               => /\ pomodoro_timer'.remaining_seconds
                       = pomodoro_timer.remaining_seconds - 1
                  /\ pomodoro_timer'.elapsed_seconds
                       = pomodoro_timer.elapsed_seconds + 1
                  /\ ret' = FALSE
                  /\ notes' = <<on_tick(pomodoro_timer'.remaining_seconds)>>
          /\ ret' = TRUE => notes' = <<>>]_vars

\* The tick that brought a running interval from 2 to 1.
C28_Witness ==
    /\ op.name = "tick"
    /\ ~ret
    /\ pomodoro_timer.remaining_seconds = 1
    /\ pomodoro_timer.elapsed_seconds = 1
    /\ notes = <<on_tick(1)>>

\* C29: on_state_change is called exactly once by every start call, every
\* reset(), every pause() from a running state and every resume() from
\* PAUSED, never by tick(), and always after the state was assigned: its
\* argument is the timer's state at the call.
C29_StateChangeNotification ==
    [][LET fires ==
             \/ op'.name \in {"start_work", "start_short_break",
                               "start_long_break", "reset"}
             \/ op'.name = "pause" /\ pomodoro_timer.state \in Running
             \/ op'.name = "resume" /\ pomodoro_timer.state = PAUSED
           fired == {i \in 1..Len(notes') : notes'[i].cb = "on_state_change"}
       IN /\ fires => /\ Cardinality(fired) = 1
                      /\ \A i \in fired :
                            notes'[i].arg = pomodoro_timer'.state
          /\ ~fires => fired = {}
          /\ op'.name = "tick" => fired = {}]_vars

\* resume() from PAUSED that fell to IDLE: one notification, of IDLE.
C29_Witness ==
    /\ op.name = "resume"
    /\ pomodoro_timer.state = IDLE
    /\ pomodoro_timer.elapsed_seconds > 0
    /\ notes = <<on_state_change(IDLE)>>

\* C30: remainingSeconds >= 0 and elapsedSeconds >= 0 in every reachable
\* state, and remainingSeconds increases in no step other than a start call
\* or reset().
C30_CountersStayNonNegative ==
    /\ [](pomodoro_timer.remaining_seconds >= 0
           /\ pomodoro_timer.elapsed_seconds >= 0)
    /\ [][pomodoro_timer'.remaining_seconds > pomodoro_timer.remaining_seconds
          => op'.name \in {"start_work", "start_short_break",
                           "start_long_break", "reset"}]_vars

\* tick() called again after the completion was reported: still at 0.
C30_Witness ==
    /\ op.name = "tick"
    /\ ret
    /\ run.completions >= 2
    /\ pomodoro_timer.remaining_seconds = 0

\* C23: the settings are an upsert key-value map: after set_setting(k, v),
\* get_setting(k, d) returns v for every default d until the next
\* set_setting(k, _); a later set_setting(k, v2) overwrites; get_setting on
\* a key never set returns the default and does not create the key;
\* set_setting(k, _) leaves every other key unchanged.
C23_SettingsUpsert ==
    [][/\ op'.name = "set_setting"
            => /\ \A default \in SettingValues \cup {NoRow} :
                     get_setting(db', op'.d.key, default) = op'.d.value
               /\ \A key \in SettingKeys \ {op'.d.key} :
                     db'.settings[key] = db.settings[key]
       /\ op'.name = "get_setting"
            => /\ db' = db
               /\ ret' = IF db.settings[op'.d.key] = NoRow
                         THEN op'.d.value
                         ELSE db.settings[op'.d.key]
       /\ \A key \in SettingKeys :
             db'.settings[key] # db.settings[key]
             => op'.name = "set_setting" /\ op'.d.key = key]_vars

\* get_setting with default "0" returned the value stored for the key;
\* another key still has no row.
C23_Witness ==
    /\ op.name = "get_setting"
    /\ op.d.key = "work_duration"
    /\ op.d.value = str(0)
    /\ ret = str(2)
    /\ db.settings["short_break_duration"] = str(1)
    /\ db.settings["long_break_duration"] = NoRow

\* C24: every persisted row has end_time >= start_time, whatever restarts,
\* breaks, pauses and resumes led to it.
C24_EndNotBeforeStart ==
    \A r \in db.pomodoros : NotOlder(r.end_time, r.start_time)

\* A row of an interval that was paused on its way.
C24_Witness ==
    \E r \in db.pomodoros :
       /\ r.end_time # r.start_time
       /\ ~r.interval.only_ticks

\* C25: when create_pomodoro fails in the handling of a completing tick, the
\* exception leaves the handler (no retry), no row is added, and the timer's
\* state, remaining_seconds, elapsed_seconds and work_sessions are as the
\* completing tick left them: the session counts as completed.
C25_FailedRecordLeavesEngineAlone ==
    [][/\ (op'.name = "tick" /\ ret' /\ ui'.raised = "IntegrityError")
            => /\ db' = db
               /\ pomodoro_timer' = tick(pomodoro_timer).t
               /\ pomodoro_timer'.state = WORKING
               /\ pomodoro_timer'.remaining_seconds = 0
               /\ pomodoro_timer'.elapsed_seconds
                    = pomodoro_timer.elapsed_seconds
               /\ pomodoro_timer'.work_sessions
                    = pomodoro_timer.work_sessions + 1
               /\ ~ui'.timer_active
       /\ ui.raised # "" => db' = db]_vars

\* The completing tick of a work interval whose task was deleted meanwhile.
C25_Witness ==
    /\ op.name = "tick"
    /\ ret
    /\ ui.raised = "IntegrityError"
    /\ ui.current_task_id \notin db.tasks
    /\ db.pomodoros = {}
    /\ pomodoro_timer.work_sessions = 1

\* C22: get_pomodoro_stats is atomic beside a concurrent create_pomodoro or
\* delete_pomodoro: its three values describe one single state of the
\* store, one that existed during the call, so today_count and
\* today_duration agree about whether a new row exists.
C22_StatisticsAreAtomic ==
    [][(op'.name = "get_pomodoro_stats" /\ op'.d = 3 /\ op.d = 2)
       => \E rows \in run'.seen :
             ret' = get_pomodoro_stats([db EXCEPT !.pomodoros = rows], now)
      ]_vars

\* C31: the three duration settings in the store stay within their ranges
\* after any sequence of user adjustments (work_duration in 1..120,
\* short_break_duration in 1..60, long_break_duration in 1..120), and the
\* store's settings change only while the timer is Idle.
C31_AdjustmentsInRangeWhileIdle ==
    /\ [](/\ int(get_setting(db, "work_duration", str(25))) \in 1..120
          /\ int(get_setting(db, "short_break_duration", str(5))) \in 1..60
          /\ int(get_setting(db, "long_break_duration", str(15))) \in 1..120)
    /\ [][db'.settings # db.settings => pomodoro_timer.state = IDLE]_vars

\* C32: resume() returns the timer to the running state it was paused in:
\* a paused Working interval resumes as Working, a paused ShortBreak as
\* ShortBreak, a paused LongBreak as LongBreak, for every combination of
\* durations and every point of the countdown with elapsed < remaining.
C32_ResumeRestoresState ==
    [][(/\ op'.name = "pause"
        /\ pomodoro_timer.state \in Running
        /\ pomodoro_timer.elapsed_seconds < pomodoro_timer.remaining_seconds)
       => resume(pomodoro_timer').t.state = pomodoro_timer.state]_vars

\* C33: a started interval always completes: when after a start call only
\* tick, pause and resume are called, every pause is followed by a resume
\* and the ticks keep arriving, some tick reports completion.
C33_StartedIntervalCompletes ==
    (run.kind # "none") ~> (op.name = "tick" /\ ret)

\* C34: one started Working interval gives at most one reported completion
\* and one increment of work_sessions: a tick() after the completing tick
\* and before the next start or reset reports not-completed and leaves the
\* counter unchanged.
C34_OneCompletionPerInterval ==
    /\ [](run.kind = "work" => run.completions <= 1)
    /\ [][(op'.name = "tick" /\ run.kind = "work" /\ run.completions >= 1)
          => /\ ret' = FALSE
             /\ pomodoro_timer'.work_sessions
                  = pomodoro_timer.work_sessions]_vars

\* C35: whenever a completing tick makes the widget record the interval
\* (the timer is Working and a task is selected), the timer's start time is
\* defined and is the time of the start call that began the interval that
\* just completed: the clock at that tick less the seconds ticked since.
C35_RecordedStartIsThisInterval ==
    [][(/\ op'.name = "tick"
        /\ ret'
        /\ pomodoro_timer'.state = WORKING
        /\ ui.current_task_id # None)
       => /\ get_start_time(pomodoro_timer') # None
          /\ get_start_time(pomodoro_timer') = now' - run'.ticks]_vars

\* C36: a stored row stays, unchanged, until delete_pomodoro is called with
\* its id: no other Database call, creating or deleting a task included,
\* removes or changes a row or lowers all_time_duration.
C36_RowsStayUntilDeleted ==
    [][/\ \A r \in db.pomodoros :
             \/ r \in db'.pomodoros
             \/ op'.name = "delete_pomodoro" /\ op'.d.id = r.id
       /\ op'.name # "delete_pomodoro"
            => get_pomodoro_stats(db', now').all_time_duration
                 >= get_pomodoro_stats(db, now).all_time_duration]_vars

\* C37: loading the duration configuration does not modify the stored
\* settings: after DurationSelector has loaded a stored triple the three
\* settings in the store are what they were, and the three values the
\* selector shows equal them.
C37_LoadKeepsStoredSettings ==
    [][op'.name = "_load_config"
       => /\ db'.settings = db.settings
          /\ ui'.work_minutes = int(get_setting(db, "work_duration", str(25)))
          /\ ui'.short_minutes
                = int(get_setting(db, "short_break_duration", str(5)))
          /\ ui'.long_minutes
                = int(get_setting(db, "long_break_duration", str(15)))]_vars

\* C38: after a tick reports completion the widget has stopped its QTimer
\* and its Start button is enabled, so the next interval can be started
\* without a reset or a pause.
C38_StartEnabledAfterCompletion ==
    [][(op'.name = "tick" /\ ret' /\ ui'.raised = "")
       => ~ui'.timer_active /\ ui'.start_enabled]_vars

\* C39: in every state of the store the length of get_today_pomodoros()
\* equals today_count, today_count is at most the length of
\* get_all_pomodoros(), and today_duration <= all_time_duration.
C39_ListingsAgreeWithStatistics ==
    LET stats == get_pomodoro_stats(db, now)
    IN /\ Len(get_today_pomodoros(db, now)) = stats.today_count
       /\ stats.today_count <= Len(get_all_pomodoros(db))
       /\ stats.today_duration <= stats.all_time_duration
       /\ op.name = "get_pomodoro_stats"
            => /\ ret.stats.today_count = Len(get_today_pomodoros(db, now))
               /\ ret.stats.today_count <= Len(get_all_pomodoros(db))
               /\ ret.stats.today_duration <= ret.stats.all_time_duration

\* get_pomodoro_stats on two rows, one begun today and one earlier.
C39_Witness ==
    /\ op.name = "get_pomodoro_stats"
    /\ Len(get_all_pomodoros(db)) = 2
    /\ Len(get_today_pomodoros(db, now)) = 1
    /\ ret.stats.today_count = 1
    /\ ret.stats.today_duration < ret.stats.all_time_duration

====
